---- MODULE Spec2Model ----
(***************************************************************************)
(* Model of the web crawler of web_crawler.py (class WebCrawler): the      *)
(* frontier loop of crawl(), soft-block handling and content-hash dedup of *)
(* process_response, the HTML extractors, the link extractor and the       *)
(* persisted stores (documents directory, url mapping, context data,       *)
(* hashed-content ledger).                                                 *)
(*                                                                         *)
(* Strings the code inspects character by character (URLs, filenames) are  *)
(* sequences of one-character strings; page text is a sequence of lines,   *)
(* each a sequence of words.                                               *)
(***************************************************************************)
EXTENDS Integers, Sequences, FiniteSets, TLC

\* ------------------------------------------------------------------ bounds
MaxDepthBound == 1      \* max_depth ranges over 0..MaxDepthBound
MaxPagesBound == 3      \* max_pages ranges over 0..MaxPagesBound
MaxRuns == 2            \* number of crawler constructions in one behaviour

\* ------------------------------------------------------- program constants
delay == 1                  \* self.delay
retry_delay == 60           \* self.retry_delay
MinImageBytes == 20480      \* size floor of scrape_images_from_html

\* ----------------------------------------------------------- text helpers
StartsWith(s, p) == Len(s) >= Len(p) /\ SubSeq(s, 1, Len(p)) = p

EndsWith(s, p) == Len(s) >= Len(p) /\ SubSeq(s, Len(s) - Len(p) + 1, Len(s)) = p

\* Python's "p in s" on strings
Contains(s, p) == \E i \in 0..(Len(s) - Len(p)) : SubSeq(s, i + 1, i + Len(p)) = p

\* str.lower() on the characters and words that occur in the model
LowerChar(c) ==
  CASE c = "L" -> "l"
    [] c = "P" -> "p"
    [] c = "N" -> "n"
    [] c = "G" -> "g"
    [] c = "D" -> "d"
    [] c = "F" -> "f"
    [] c = "Surge" -> "surge"
    [] c = "Protection" -> "protection"
    [] c = "Logo" -> "logo"
    [] OTHER -> c

Lower(s) == [i \in DOMAIN s |-> LowerChar(s[i])]

\* ------------------------------------------------------------------- URLs
HTTPS == <<"h", "t", "t", "p", "s", ":", "/", "/">>
HTTP == <<"h", "t", "t", "p", ":", "/", "/">>

UrlS == HTTPS \o <<"g", ".", "o", "/">>
UrlA == HTTPS \o <<"g", ".", "o", "/", "a">>
UrlB == HTTPS \o <<"g", ".", "o", "/", "b">>
UrlE == HTTPS \o <<"e", ".", "x", "/">>
UrlEX == HTTPS \o <<"e", ".", "x", "/", "x">>
UrlImg == HTTPS \o <<"g", ".", "o", "/", "a", ".", "p", "n", "g">>
UrlImg2 == HTTPS \o <<"g", ".", "o", "/", "c", ".", "p", "n", "g">>
UrlLogo == HTTPS \o <<"g", ".", "o", "/", "L", "o", "g", "o", ".", "p", "n", "g">>

UrlP == HTTPS \o <<"g", ".", "o", "/", "d", ".", "P", "D", "F">>

Urls == {UrlS, UrlA, UrlB, UrlE, UrlEX, UrlP}

\* re.match(r'^https?://', href)
IsAbsolute(href) == StartsWith(href, HTTPS) \/ StartsWith(href, HTTP)

SchemeLen(url) == IF StartsWith(url, HTTPS) THEN Len(HTTPS) ELSE IF StartsWith(url, HTTP) THEN Len(HTTP) ELSE 0

\* index of the first "/" after the scheme, or Len(url) + 1
NetlocEnd(url) ==
  LET from == SchemeLen(url) + 1
      hits == {i \in from..Len(url) : url[i] = "/"}
  IN  IF hits = {} THEN Len(url) + 1 ELSE CHOOSE i \in hits : \A j \in hits : i <= j

\* urlparse(url).netloc: text between "//" and the next "/" (empty without a scheme)
netloc(url) == IF SchemeLen(url) = 0 THEN <<>> ELSE SubSeq(url, SchemeLen(url) + 1, NetlocEnd(url) - 1)

\* urljoin(base, ref) for absolute references and for path-absolute ones ("/p")
urljoin(base, ref) ==
  IF IsAbsolute(ref) THEN ref
  ELSE SubSeq(base, 1, NetlocEnd(base) - 1) \o ref

\* re.sub(r'[<>:"./\\|?*]', '_', s)
IllegalChars == {"<", ">", ":", "\"", ".", "/", "\\", "|", "?", "*"}

\* url_to_filename(url, file_format, no_type, name_extension)
url_to_filename(url, file_format, no_type, name_extension) ==
  LET rest == SubSeq(url, 9, Len(url))
      filename == [i \in DOMAIN rest |-> IF rest[i] \in IllegalChars THEN "_" ELSE rest[i]]
  IN  IF no_type THEN filename \o name_extension
      ELSE filename \o name_extension \o <<".">> \o file_format

\* ------------------------------------------------ configuration (CrawlConfig)
allowed_domains == {<<"g", ".", "o">>}
non_content_phrases == {"Cookie"}
UrlImg3 == HTTPS \o <<"g", ".", "o", "/", "d", ".", "p", "n", "g">>
UrlImg4 == HTTPS \o <<"g", ".", "o", "/", "f", ".", "p", "n", "g">>
black_listed_imgs == {UrlImg3}
ImgLens == {15360, 20481}
StartUrlChoices == {<<UrlS>>, <<UrlS, UrlE>>}

\* file formats; None stands for Python's None and for an absent attribute
TXT == <<"t", "x", "t">>
CSV == <<"c", "s", "v">>
PNG == <<"P", "N", "G">>
SVG == <<"s", "v", "g">>
None == <<>>

\* --------------------------------------------------------------- the web
\* A response body: its bytes (content), its text lines, an optional code
\* viewer, its anchors' hrefs, its <table> elements and its <img> elements;
\* for a PDF, its pages (text, tables as row lists, embedded images).
Img(src, words) == [src |-> src, words |-> words]

PageS ==
  [content |-> 1,
   lines |-> << <<"Welcome", "to", "the", "site">>, <<"Menu">> >>,
   code |-> <<>>,
   links |-> << <<"/", "d", ".", "P", "D", "F">>, <<"/", "a">>, UrlE, <<"/", "b">> >>,
   tables |-> << [ok |-> TRUE, data |-> 1, around |-> <<"prices">>] >>,
   imgs |-> << Img(<<"/", "a", ".", "p", "n", "g">>, <<"diagram">>) >>,
   pages |-> <<>>]

PageA ==
  [content |-> 2,
   lines |-> << <<"Cookie", "policy", "applies", "here">>, <<"too", "short">> >>,
   code |-> <<>>,
   links |-> << <<"/">>, <<"/", "b">> >>,
   tables |-> << [ok |-> TRUE, data |-> 2, around |-> <<"first">>],
                 [ok |-> FALSE, data |-> 0, around |-> <<>>],
                 [ok |-> TRUE, data |-> 3, around |-> <<"second">>] >>,
   imgs |-> << Img(<<>>, <<"nosrc">>),
               Img(<<"/", "L", "o", "g", "o", ".", "p", "n", "g">>, <<"brand">>),
               Img(<<"/", "c", ".", "p", "n", "g">>, <<"chart">>),
               Img(<<"/", "a", ".", "p", "n", "g">>, <<"Logo">>),
               Img(<<"/", "d", ".", "p", "n", "g">>, <<"photo">>),
               Img(<<"/", "f", ".", "p", "n", "g">>, <<"photo">>) >>,
   pages |-> <<>>]

PageE ==
  [content |-> 3,
   lines |-> << <<"Some", "other", "site">> >>,
   code |-> <<"print", "x">>,
   links |-> << <<"/", "x">>, UrlS >>,
   tables |-> <<>>,
   imgs |-> <<>>,
   pages |-> <<>>]

PageEX ==
  [content |-> 4,
   lines |-> << <<"An", "outside", "page">> >>,
   code |-> <<>>,
   links |-> <<>>,
   tables |-> <<>>,
   imgs |-> <<>>,
   pages |-> <<>>]

BlockS ==
  [content |-> 5,
   lines |-> << <<"Surge", "Protection", "is", "active">> >>,
   code |-> <<>>,
   links |-> << <<"/", "a">> >>,
   tables |-> <<>>,
   imgs |-> <<>>,
   pages |-> <<>>]

BlockA ==
  [content |-> 6,
   lines |-> << <<"please", "wait", "surge", "protection">> >>,
   code |-> <<>>,
   links |-> <<>>,
   tables |-> <<>>,
   imgs |-> <<>>,
   pages |-> <<>>]

PagePdf ==
  [content |-> 7,
   lines |-> <<>>,
   code |-> <<>>,
   links |-> <<>>,
   tables |-> <<>>,
   imgs |-> <<>>,
   pages |-> << [text |-> <<"page", "one">>,
                 tables |-> << << <<"h1", "h2">>, <<"a", "b">> >>, <<>> >>,
                 images |-> << [bytes |-> 13, len |-> 30000, format |-> PNG],
                               [bytes |-> 14, len |-> 2000, format |-> PNG] >>],
                [text |-> <<"page", "two">>,
                 tables |-> << << <<"k">>, <<"v">> >> >>,
                 images |-> << [bytes |-> 13, len |-> 30000, format |-> PNG],
                               [bytes |-> 15, len |-> 40000, format |-> None] >>] >>]

\* a 200 body that is no PDF (an HTML error page, say), served under a .pdf URL
PageNotPdf ==
  [content |-> 8,
   lines |-> << <<"document", "has", "moved">> >>,
   code |-> <<>>,
   links |-> <<>>,
   tables |-> <<>>,
   imgs |-> <<>>,
   pages |-> <<>>]

\* UrlB serves the same bytes as UrlA (a mirror)
NormalPage(url) ==
  CASE url = UrlS -> PageS
    [] url = UrlA -> PageA
    [] url = UrlB -> PageA
    [] url = UrlE -> PageE
    [] url = UrlP -> PagePdf
    [] OTHER -> PageEX

BlockPage(url) == IF url = UrlA THEN BlockA ELSE BlockS

\* What a server does: "ok" answers 200 with the normal page; "block" answers
\* the first GET of a run with a 200 soft-block page and later GETs with the
\* normal page; "status" answers 404; "exception" makes requests.get raise;
\* "broken" answers 200 with a body that is not the PDF its URL promises;
\* "wall" answers every GET with the soft-block page.
Kinds == {"ok", "block", "status", "exception", "broken", "wall"}

Webs ==
  {w \in [Urls -> Kinds] :
     /\ \A u \in Urls \ {UrlP} : w[u] # "broken"
     /\ \A u \in Urls \ {UrlA} : w[u] # "wall"
     /\ w[UrlE] \in {"ok", "status"}
     /\ w[UrlP] \in {"ok", "exception", "broken"}
     /\ w[UrlEX] = "ok"}

\* ------------------------------------------------------------------ state
VARIABLES
  start_urls, max_depth, max_pages,   \* constructor arguments, fixed for a behaviour
  web, img_len,                       \* the servers: kind per URL, byte length of a.png/c.png
  visited_urls, urls_to_visit, pages_crawled, content_hashes,   \* WebCrawler fields
  data_dir, documents,                \* topic_dir/documents: whether it exists, and its files
  url_mapping_file, hashed_content_file, context_file,   \* the three files of topic_dir
  pc, runs, reset_arg,                \* "crawl" inside crawl()'s loop, "done" after it, "crashed" when
                                      \* an exception left it; constructions so far; the reset
                                      \* argument of the current crawler
  fetches, blocks, processed, fetched, enqueued,   \* history of the current run
  last                                \* what the last step did

config == <<start_urls, max_depth, max_pages, web, img_len>>
object == <<visited_urls, urls_to_visit, pages_crawled, content_hashes>>
disk == <<data_dir, documents, url_mapping_file, hashed_content_file, context_file>>
history == <<fetches, blocks, processed, fetched, enqueued, last>>
vars == <<config, object, disk, pc, runs, reset_arg, history>>

EmptyMap == [x \in {} |-> {}]

Put(f, k, v) == [x \in (DOMAIN f) \cup {k} |-> IF x = k THEN v ELSE f[x]]

NoFile == [exists |-> FALSE, data |-> EmptyMap]

NoHashFile == [exists |-> FALSE, data |-> {}]

\* hashlib.md5(str(data).encode('utf-8')).hexdigest()
md5(data) == <<"md5", data>>

\* load_hashes that reads nothing back
load_hashes_Forget(file) == {}

\* load_hashes: one stripped line per hash, the empty set without a file
load_hashes(file) == IF file.exists THEN {line[1] : line \in file.data} ELSE {}

\* save_hashes: the file is rewritten with one line (hash, newline) per hash
save_hashes(hashes) == [exists |-> TRUE, data |-> {<<h, "\n">> : h \in hashes}]

\* ------------------------------------------------------------- the stores
\* The operators below thread a record m through one loop iteration:
\*   content_hashes, urls_to_visit, documents, url_mapping_file, context_file:
\*       the fields and files the iteration changes
\*   page_hash: the hash process_response computed for the page
\*   slept, written, enq, blocked, routed, saved: what the iteration did, in order

update_url_mapping(m, filename, url) ==
  LET url_mapping == IF ~m.url_mapping_file.exists THEN EmptyMap ELSE m.url_mapping_file.data
  IN  [m EXCEPT !.url_mapping_file = [exists |-> TRUE, data |-> Put(url_mapping, filename, url)]]

update_context_data(m, filename, url, context) ==
  LET context_data == IF ~m.context_file.exists THEN EmptyMap ELSE m.context_file.data
  IN  [m EXCEPT !.context_file =
         [exists |-> TRUE, data |-> Put(context_data, filename, [url |-> url, context |-> context])]]

\* open(f"{data_dir}/{filename}", 'w').write(content), remembered in m.written
WriteFile(m, filename, content, kind, url, hash) ==
  [m EXCEPT !.documents = Put(@, filename, content),
            !.written = Append(@, [file |-> filename, kind |-> kind, url |-> url, hash |-> hash])]

\* get_image_format: the sniffed format, "svg" when the bytes cannot be opened
get_image_format(image_bytes) == IF image_bytes.format = None THEN SVG ELSE image_bytes.format

\* ------------------------------------------------------------- image path
LOGO == <<"l", "o", "g", "o">>
ICON == <<"i", "c", "o", "n">>
UrlKeywords == {LOGO, ICON, <<"f", "a", "v", "i", "c", "o", "n">>, <<"s", "p", "r", "i", "t", "e">>,
                <<"b", "a", "n", "n", "e", "r">>, <<"b", "u", "t", "t", "o", "n">>}
ContextKeywords == {LOGO, ICON, <<"b", "u", "t", "t", "o", "n">>}
ContextWords == {"logo", "icon", "button"}

\* requests.get(img_url) of scrape_images_from_html
ImgResponse(img_url) ==
  CASE img_url \in {UrlImg, UrlImg2} ->
         [raises |-> FALSE, status_code |-> 200, content |-> [bytes |-> 10, len |-> img_len, format |-> PNG]]
    [] img_url = UrlLogo ->
         [raises |-> FALSE, status_code |-> 200, content |-> [bytes |-> 11, len |-> 30000, format |-> PNG]]
    [] img_url = UrlImg3 ->
         [raises |-> FALSE, status_code |-> 200, content |-> [bytes |-> 12, len |-> 30000, format |-> None]]
    [] img_url = UrlImg4 ->
         [raises |-> TRUE, status_code |-> 0, content |-> [bytes |-> 0, len |-> 0, format |-> None]]
    [] OTHER ->
         [raises |-> FALSE, status_code |-> 404, content |-> [bytes |-> 0, len |-> 0, format |-> None]]

\* the context string of an <img>: alt, caption and surrounding words, then base_url
\* is_descriptive_image(img_url, context)
is_descriptive_image(img_url, context) ==
  IF \E keyword \in UrlKeywords : Contains(Lower(img_url), keyword) THEN FALSE
  ELSE IF \/ \E i \in DOMAIN context.words : LowerChar(context.words[i]) \in ContextWords
          \/ \E keyword \in ContextKeywords : Contains(Lower(context.base_url), keyword) THEN FALSE
  ELSE IF img_url \in black_listed_imgs THEN FALSE
  ELSE TRUE

\* process_images without the "img_hash not in self.content_hashes" test
process_images_NoGate(m, img_data, img_url, img_filename, context) ==
  IF ~Contains(Lower(img_url), LOGO) /\ ~Contains(Lower(img_url), ICON) THEN
    LET img_hash == md5(img_data.bytes)
        m1 == [m EXCEPT !.content_hashes = @ \cup {img_hash}]
        name == IF img_filename = None
                THEN url_to_filename(img_url, Lower(get_image_format(img_data)), FALSE, <<>>)
                ELSE img_filename
        m2 == WriteFile(m1, name, img_data.bytes, "image", img_url, img_hash)
        m3 == update_url_mapping(m2, name, img_url)
    IN  update_context_data(m3, name, img_url, context)
  ELSE m

\* process_images(img_data, img_url, img_filename, context)
process_images(m, img_data, img_url, img_filename, context) ==
  IF ~Contains(Lower(img_url), LOGO) /\ ~Contains(Lower(img_url), ICON) THEN
    LET img_hash == md5(img_data.bytes) IN
    IF img_hash \notin m.content_hashes THEN
      LET m1 == [m EXCEPT !.content_hashes = @ \cup {img_hash}]
          name == IF img_filename = None
                  THEN url_to_filename(img_url, Lower(get_image_format(img_data)), FALSE, <<>>)
                  ELSE img_filename
          m2 == WriteFile(m1, name, img_data.bytes, "image", img_url, img_hash)
          m3 == update_url_mapping(m2, name, img_url)
      IN  update_context_data(m3, name, img_url, context)
    ELSE m
  ELSE m

\* a size floor of 10 KB
BigEnough_LowFloor(content) == content.len > 10240

\* len(img_response.content) > 20480
BigEnough(content) == content.len > MinImageBytes

\* scrape_images_from_html(base_url, soup): the <img> elements from index i on
RECURSIVE scrape_images_from_html(_, _, _, _)
scrape_images_from_html(m, base_url, imgs, i) ==
  IF i > Len(imgs) THEN m
  ELSE
    LET img == imgs[i]
        context == [words |-> img.words, base_url |-> base_url]
        img_url == urljoin(base_url, img.src)
        img_response == ImgResponse(img_url)
        m1 == IF img.src = None THEN m
              ELSE IF img_response.raises THEN m
              ELSE IF img_response.status_code = 200 /\ BigEnough(img_response.content)
                   THEN IF is_descriptive_image(img_url, context)
                        THEN process_images(m, img_response.content, img_url, None, context)
                        ELSE m
                   ELSE m
    IN  scrape_images_from_html(m1, base_url, imgs, i + 1)

\* ------------------------------------------------------- tables and text
\* scrape_tables_from_html(url, soup): the <table> elements from index i on;
\* a table pandas cannot read raises ValueError, which is caught
RECURSIVE scrape_tables_from_html(_, _, _, _)
scrape_tables_from_html(m, url, tables, i) ==
  IF i > Len(tables) THEN m
  ELSE
    LET table == tables[i]
        table_filename == url_to_filename(url, CSV, FALSE, <<>>)
        m1 == IF table.ok
              THEN update_context_data(
                     update_url_mapping(
                       WriteFile(m, table_filename, table.data, "table", url, m.page_hash),
                       table_filename, url),
                     table_filename, url, table.around)
              ELSE m
    IN  scrape_tables_from_html(m1, url, tables, i + 1)

\* the lines that survive the noise filter of scrape_text_from_html
content_lines(lines) ==
  SelectSeq(lines, LAMBDA line :
     Len(line) > 2 /\ ~\E j \in DOMAIN line : line[j] \in non_content_phrases)

\* scrape_text_from_html(url, soup)
scrape_text_from_html(m, url, body) ==
  LET filtered_text == IF body.code # <<>>
                       THEN << <<"Filename:", "Branch:">>, body.code >>
                       ELSE content_lines(body.lines)
      filename == url_to_filename(url, TXT, FALSE, <<>>)
  IN  IF filtered_text # <<>>
      THEN WriteFile(update_url_mapping(m, filename, url), filename, filtered_text, "text", url, m.page_hash)
      ELSE m

\* process_html(url, response)
process_html(m, url, body) ==
  LET m1 == scrape_tables_from_html(m, url, body.tables, 1)
      m2 == scrape_text_from_html(m1, url, body)
  IN  scrape_images_from_html(m2, url, body.imgs, 1)

\* ---------------------------------------------------------------- PDF path
DigitChar(n) == CASE n = 1 -> "1" [] n = 2 -> "2" [] n = 3 -> "3" [] OTHER -> "9"

\* f"_page_{i + 1}_{what}_{j + 1}" for the 0-based i, j of enumerate
PageSuffix(i, what, j) ==
  <<"_", "p", "a", "g", "e", "_", DigitChar(i + 1), "_">> \o what \o <<"_", DigitChar(j + 1)>>

\* scrape_text_from_pdf(url, pdf_content): text accumulates every page, the
\* file receives page_text, the text of the last page of the loop
scrape_text_from_pdf(m, url, body) ==
  LET filename == url_to_filename(url, TXT, FALSE, <<>>)
      page_text == body.pages[Len(body.pages)].text \o <<"\n">>
  IN  update_url_mapping(WriteFile(m, filename, page_text, "text", url, m.page_hash), filename, url)

\* scrape_images_from_pdf(url, pdf_content): image j (1-based) of page i on
RECURSIVE scrape_images_from_pdf(_, _, _, _, _)
scrape_images_from_pdf(m, url, pages, i, j) ==
  IF i > Len(pages) THEN m
  ELSE IF j > Len(pages[i].images) THEN scrape_images_from_pdf(m, url, pages, i + 1, 1)
  ELSE
    LET img_bytes == pages[i].images[j]
        img_format == get_image_format(img_bytes)
        img_filename == url_to_filename(url, Lower(img_format), FALSE,
                                        PageSuffix(i - 1, <<"i", "m", "a", "g", "e">>, j - 1))
        m1 == IF img_bytes.len > MinImageBytes
              THEN process_images(m, img_bytes, url, img_filename, pages[i].text)
              ELSE m
    IN  scrape_images_from_pdf(m1, url, pages, i, j + 1)

\* scrape_tables_from_pdf(url, pdf_content): table j (1-based) of page i on
RECURSIVE scrape_tables_from_pdf(_, _, _, _, _)
scrape_tables_from_pdf(m, url, pages, i, j) ==
  IF i > Len(pages) THEN m
  ELSE IF j > Len(pages[i].tables) THEN scrape_tables_from_pdf(m, url, pages, i + 1, 1)
  ELSE
    LET table == pages[i].tables[j]
        table_filename == url_to_filename(url, <<>>, TRUE,
                            PageSuffix(i - 1, <<"t", "a", "b", "l", "e">>, j - 1) \o <<".">> \o CSV)
        m1 == IF table # <<>>
              THEN update_context_data(
                     update_url_mapping(
                       WriteFile(m, table_filename, table, "table", url, m.page_hash),
                       table_filename, url),
                     table_filename, url, pages[i].text)
              ELSE m
    IN  scrape_tables_from_pdf(m1, url, pages, i, j + 1)

\* process_pdf raises when its first step, scrape_text_from_pdf, does: on a
\* body pdfplumber.open cannot parse, and on a PDF without pages (page_text
\* is then unbound at the write)
process_pdf_raises(body) == body.pages = <<>>

\* process_pdf(url, content), for a PDF that pdfplumber and fitz can read and
\* that has at least one page
process_pdf(m, url, body) ==
  LET m1 == scrape_text_from_pdf(m, url, body)
      m2 == scrape_images_from_pdf(m1, url, body.pages, 1, 1)
  IN  scrape_tables_from_pdf(m2, url, body.pages, 1, 1)

PDF_SUFFIX == <<".", "p", "d", "f">>

\* ------------------------------------------------------- process_response
SurgePhrase == <<"surge", "protection">>

\* the phrase test without .lower()
IsSoftBlock_CaseSensitive(body) == \E i \in DOMAIN body.lines : Contains(body.lines[i], SurgePhrase)

\* "surge protection" in response.text.lower()
IsSoftBlock(body) == \E i \in DOMAIN body.lines : Contains(Lower(body.lines[i]), SurgePhrase)

\* process_response(response, url, depth)
process_response(m, body, url, depth) ==
  IF IsSoftBlock(body) THEN
    [m EXCEPT !.slept = Append(@, retry_delay),
              !.urls_to_visit = Append(@, <<url, depth>>),
              !.blocked = TRUE]
  ELSE
    LET content_hash == md5(body.content) IN
    IF content_hash \notin m.content_hashes
    THEN LET m1 == [m EXCEPT !.content_hashes = @ \cup {content_hash},
                             !.page_hash = content_hash,
                             !.routed = TRUE]
         IN  IF EndsWith(Lower(url), PDF_SUFFIX)
             THEN process_pdf(m1, url, body)
             ELSE process_html(m1, url, body)
    ELSE m

\* process_response raises: a fresh page routed to process_pdf, which raises
process_response_raises(m, body, url) ==
  /\ ~IsSoftBlock(body)
  /\ md5(body.content) \notin m.content_hashes
  /\ EndsWith(Lower(url), PDF_SUFFIX)
  /\ process_pdf_raises(body)

\* ------------------------------------------------------------ parse_links
\* the domain test when an allowed domain is iterated character by character
AllowedDomain_Chars(href_domain) ==
  \E allowed_domain \in allowed_domains : \E i \in DOMAIN allowed_domain :
    Contains(href_domain, <<allowed_domain[i]>>)

\* any(allowed_domain in href_domain for allowed_domain in self.allowed_domains)
AllowedDomain(href_domain) == \E allowed_domain \in allowed_domains : Contains(href_domain, allowed_domain)

\* parse_links(soup, base_url, depth): the anchors from index i on
RECURSIVE parse_links(_, _, _, _, _)
parse_links(m, links, base_url, depth, i) ==
  IF i > Len(links) THEN m
  ELSE
    LET href == IF ~IsAbsolute(links[i]) THEN urljoin(base_url, links[i]) ELSE links[i]
        href_domain == netloc(href)
        m1 == IF ~AllowedDomain(href_domain) THEN m
              ELSE IF href \notin m.visited_urls
                   THEN [m EXCEPT !.urls_to_visit = Append(@, <<href, depth + 1>>),
                                  !.enq = Append(@, <<href, depth + 1>>)]
                   ELSE m
    IN  parse_links(m1, links, base_url, depth, i + 1)

\* ------------------------------------------------------------------ crawl
\* requests.get(url): the k-th GET of this run for url
Response(url) ==
  CASE web[url] = "ok" -> [raises |-> FALSE, status_code |-> 200, body |-> NormalPage(url)]
    [] web[url] = "block" ->
         [raises |-> FALSE, status_code |-> 200,
          body |-> IF fetches[url] = 0 THEN BlockPage(url) ELSE NormalPage(url)]
    [] web[url] = "wall" -> [raises |-> FALSE, status_code |-> 200, body |-> BlockPage(url)]
    [] web[url] = "broken" -> [raises |-> FALSE, status_code |-> 200, body |-> PageNotPdf]
    [] web[url] = "status" -> [raises |-> FALSE, status_code |-> 404, body |-> PageEX]
    [] OTHER -> [raises |-> TRUE, status_code |-> 0, body |-> PageEX]

\* the loop condition with <= for <
LoopCond_OffByOne == urls_to_visit # <<>> /\ pages_crawled <= max_pages

\* while self.urls_to_visit and self.pages_crawled < self.max_pages
LoopCond == urls_to_visit # <<>> /\ pages_crawled < max_pages

\* the skip test without the depth bound
ShouldSkip_NoDepth(url, depth) == url \in visited_urls

\* if url in self.visited_urls or depth > self.max_depth: continue
ShouldSkip(url, depth) == url \in visited_urls \/ depth > max_depth

\* the iteration's view of the crawler after pop(0) and visited_urls.add(url)
Popped(url) ==
  [content_hashes |-> content_hashes,
   urls_to_visit |-> Tail(urls_to_visit),
   visited_urls |-> visited_urls \cup {url},
   documents |-> documents,
   url_mapping_file |-> url_mapping_file,
   context_file |-> context_file,
   page_hash |-> <<>>,
   slept |-> <<>>, written |-> <<>>, enq |-> <<>>, blocked |-> FALSE, routed |-> FALSE,
   saved |-> FALSE]

Did(op, url, depth, m) ==
  [op |-> op, url |-> url, depth |-> depth,
   slept |-> m.slept, written |-> m.written, enq |-> m.enq, blocked |-> m.blocked,
   saved |-> m.saved]

Nothing == [slept |-> <<>>, written |-> <<>>, enq |-> <<>>, blocked |-> FALSE, saved |-> FALSE]

\* the skipping iteration when the entry stays at the head of the frontier
CrawlSkip_NoPop ==
  /\ pc = "crawl"
  /\ LoopCond
  /\ LET url == Head(urls_to_visit)[1]
         depth == Head(urls_to_visit)[2]
     IN  /\ ShouldSkip(url, depth)
         /\ last' = Did("skip", url, depth, Nothing)
  /\ UNCHANGED <<config, object, disk, pc, runs, reset_arg,
                 fetches, blocks, processed, fetched, enqueued>>

\* an iteration that pops an entry and skips it (line 107)
CrawlSkip ==
  /\ pc = "crawl"
  /\ LoopCond
  /\ LET url == Head(urls_to_visit)[1]
         depth == Head(urls_to_visit)[2]
     IN  /\ ShouldSkip(url, depth)
         /\ urls_to_visit' = Tail(urls_to_visit)
         /\ last' = Did("skip", url, depth, Nothing)
  /\ UNCHANGED <<config, visited_urls, pages_crawled, content_hashes, disk, pc, runs, reset_arg,
                 fetches, blocks, processed, fetched, enqueued>>

\* an iteration whose GET answers 200 (lines 108-118)
CrawlOk ==
  /\ pc = "crawl"
  /\ LoopCond
  /\ LET url == Head(urls_to_visit)[1]
         depth == Head(urls_to_visit)[2]
         response == Response(url)
         m1 == process_response(Popped(url), response.body, url, depth)
         m2 == parse_links(m1, response.body.links, url, depth, 1)
         m3 == [m2 EXCEPT !.slept = Append(@, delay), !.saved = TRUE]
     IN  /\ ~ShouldSkip(url, depth)
         /\ ~response.raises
         /\ response.status_code = 200
         /\ ~process_response_raises(Popped(url), response.body, url)
         /\ visited_urls' = m3.visited_urls
         /\ urls_to_visit' = m3.urls_to_visit
         /\ content_hashes' = m3.content_hashes
         /\ documents' = m3.documents
         /\ url_mapping_file' = m3.url_mapping_file
         /\ context_file' = m3.context_file
         /\ pages_crawled' = pages_crawled + 1
         /\ hashed_content_file' = save_hashes(m3.content_hashes)
         /\ fetches' = [fetches EXCEPT ![url] = @ + 1]
         /\ blocks' = [blocks EXCEPT ![url] = @ + (IF m3.blocked THEN 1 ELSE 0)]
         /\ processed' = [processed EXCEPT ![url] = @ + (IF m3.routed THEN 1 ELSE 0)]
         /\ fetched' = fetched \cup {<<url, depth>>}
         /\ enqueued' = enqueued \cup {m3.enq[i] : i \in DOMAIN m3.enq}
         /\ last' = Did("ok", url, depth, m3)
  /\ UNCHANGED <<config, data_dir, pc, runs, reset_arg>>

\* the same iteration when the URL is marked visited only after a 200
CrawlStatus_NotVisited ==
  /\ pc = "crawl"
  /\ LoopCond
  /\ LET url == Head(urls_to_visit)[1]
         depth == Head(urls_to_visit)[2]
         response == Response(url)
     IN  /\ ~ShouldSkip(url, depth)
         /\ ~response.raises
         /\ response.status_code # 200
         /\ urls_to_visit' = Tail(urls_to_visit)
         /\ hashed_content_file' = save_hashes(content_hashes)
         /\ fetches' = [fetches EXCEPT ![url] = @ + 1]
         /\ fetched' = fetched \cup {<<url, depth>>}
         /\ last' = Did("status", url, depth, [Nothing EXCEPT !.slept = <<delay>>, !.saved = TRUE])
  /\ UNCHANGED <<config, visited_urls, pages_crawled, content_hashes, data_dir, documents,
                 url_mapping_file, context_file, pc, runs, reset_arg, blocks, processed, enqueued>>

\* an iteration whose GET answers another status (lines 108-111, 117-118)
CrawlStatus ==
  /\ pc = "crawl"
  /\ LoopCond
  /\ LET url == Head(urls_to_visit)[1]
         depth == Head(urls_to_visit)[2]
         response == Response(url)
     IN  /\ ~ShouldSkip(url, depth)
         /\ ~response.raises
         /\ response.status_code # 200
         /\ visited_urls' = visited_urls \cup {url}
         /\ urls_to_visit' = Tail(urls_to_visit)
         /\ hashed_content_file' = save_hashes(content_hashes)
         /\ fetches' = [fetches EXCEPT ![url] = @ + 1]
         /\ fetched' = fetched \cup {<<url, depth>>}
         /\ last' = Did("status", url, depth, [Nothing EXCEPT !.slept = <<delay>>, !.saved = TRUE])
  /\ UNCHANGED <<config, pages_crawled, content_hashes, data_dir, documents, url_mapping_file,
                 context_file,
                 pc, runs, reset_arg, blocks, processed, enqueued>>

\* an iteration whose GET raises requests.RequestException (lines 108-110, 119-121)
CrawlException ==
  /\ pc = "crawl"
  /\ LoopCond
  /\ LET url == Head(urls_to_visit)[1]
         depth == Head(urls_to_visit)[2]
         response == Response(url)
     IN  /\ ~ShouldSkip(url, depth)
         /\ response.raises
         /\ visited_urls' = visited_urls \cup {url}
         /\ urls_to_visit' = Tail(urls_to_visit)
         /\ fetches' = [fetches EXCEPT ![url] = @ + 1]
         /\ fetched' = fetched \cup {<<url, depth>>}
         /\ last' = Did("exception", url, depth, Nothing)
  /\ UNCHANGED <<config, pages_crawled, content_hashes, disk, pc, runs, reset_arg, blocks, processed,
                 enqueued>>

\* an iteration whose GET answers 200 and whose extraction raises an exception
\* that is no RequestException: it passes the except clause of line 119 and
\* leaves crawl(), after visited_urls.add (line 108) and content_hashes.add
\* (line 132), before pages_crawled += 1, the sleep and save_hashes
CrawlCrash ==
  /\ pc = "crawl"
  /\ LoopCond
  /\ LET url == Head(urls_to_visit)[1]
         depth == Head(urls_to_visit)[2]
         response == Response(url)
     IN  /\ ~ShouldSkip(url, depth)
         /\ ~response.raises
         /\ response.status_code = 200
         /\ process_response_raises(Popped(url), response.body, url)
         /\ visited_urls' = visited_urls \cup {url}
         /\ urls_to_visit' = Tail(urls_to_visit)
         /\ content_hashes' = content_hashes \cup {md5(response.body.content)}
         /\ fetches' = [fetches EXCEPT ![url] = @ + 1]
         /\ fetched' = fetched \cup {<<url, depth>>}
         /\ last' = Did("crash", url, depth, Nothing)
  /\ pc' = "crashed"
  /\ UNCHANGED <<config, pages_crawled, disk, runs, reset_arg, blocks, processed, enqueued>>

\* the loop condition fails: the final save_hashes (line 122) and crawl() returns
CrawlExit ==
  /\ pc = "crawl"
  /\ ~LoopCond
  /\ hashed_content_file' = save_hashes(content_hashes)
  /\ pc' = "done"
  /\ last' = Did("exit", <<>>, 0, [Nothing EXCEPT !.saved = TRUE])
  /\ UNCHANGED <<config, object, data_dir, documents, url_mapping_file, context_file, runs, reset_arg,
                 fetches, blocks, processed, fetched, enqueued>>

\* ------------------------------------------------- construction and reset
ZeroCounts == [u \in Urls |-> 0]

\* reset(): the topic directory d after it. url_mapping.yml and
\* hashed_content.txt are removed, documents/ is removed with all its files
\* and made again; context_data.yaml is not touched
reset_dir_KeepLedger(d) ==
  [d EXCEPT !.url_mapping_file = NoFile,
            !.documents = EmptyMap,
            !.data_dir = TRUE]

reset_dir(d) ==
  [d EXCEPT !.url_mapping_file = NoFile,
            !.hashed_content_file = NoHashFile,
            !.documents = EmptyMap,
            !.data_dir = TRUE]

\* the next process: WebCrawler(..., reset) over the topic directory left by
\* the run before (__init__, with reset() when asked)
Construct(reset) ==
  /\ pc \in {"done", "crashed"}
  /\ runs < MaxRuns
  /\ LET found == [data_dir |-> TRUE,   \* lines 64-65
                   documents |-> documents,
                   url_mapping_file |-> url_mapping_file,
                   hashed_content_file |-> hashed_content_file,
                   context_file |-> context_file]
         d == IF reset THEN reset_dir(found) ELSE found
     IN  /\ data_dir' = d.data_dir
         /\ documents' = d.documents
         /\ url_mapping_file' = d.url_mapping_file
         /\ hashed_content_file' = d.hashed_content_file
         /\ context_file' = d.context_file
         /\ content_hashes' = load_hashes(d.hashed_content_file)
  /\ visited_urls' = {}
  /\ urls_to_visit' = [i \in DOMAIN start_urls |-> <<start_urls[i], 0>>]
  /\ pages_crawled' = 0
  /\ pc' = "crawl"
  /\ runs' = runs + 1
  /\ reset_arg' = reset
  /\ fetches' = ZeroCounts
  /\ blocks' = ZeroCounts
  /\ processed' = ZeroCounts
  /\ fetched' = {}
  /\ enqueued' = {}
  /\ last' = Did(IF reset THEN "reset" ELSE "construct", <<>>, 0, Nothing)
  /\ UNCHANGED config

\* the first crawler, constructed over an empty topic directory
Init ==
  /\ start_urls \in StartUrlChoices
  /\ max_depth \in 0..MaxDepthBound
  /\ max_pages \in 0..MaxPagesBound
  /\ web \in Webs
  /\ img_len \in ImgLens
  /\ visited_urls = {}
  /\ urls_to_visit = [i \in DOMAIN start_urls |-> <<start_urls[i], 0>>]
  /\ pages_crawled = 0
  /\ content_hashes = {}
  /\ data_dir = TRUE
  /\ documents = EmptyMap
  /\ url_mapping_file = NoFile
  /\ hashed_content_file = NoHashFile
  /\ context_file = NoFile
  /\ pc = "crawl"
  /\ runs = 1
  /\ reset_arg = FALSE   \* over an empty directory reset() changes nothing
  /\ fetches = ZeroCounts
  /\ blocks = ZeroCounts
  /\ processed = ZeroCounts
  /\ fetched = {}
  /\ enqueued = {}
  /\ last = Did("construct", <<>>, 0, Nothing)

Next ==
  \/ CrawlSkip
  \/ CrawlOk
  \/ CrawlStatus
  \/ CrawlException
  \/ CrawlCrash
  \/ CrawlExit
  \/ \E reset \in BOOLEAN : Construct(reset)

Spec == Init /\ [][Next]_vars

\* the steps of the running crawl() that process no response body
CrawlStep ==
  \/ CrawlSkip
  \/ CrawlStatus
  \/ CrawlException
  \/ CrawlCrash
  \/ CrawlExit

\* ENABLED <<CrawlOk>>_vars: the guard of CrawlOk (its step always changes
\* pages_crawled)
CrawlOkEnabled ==
  /\ pc = "crawl"
  /\ LoopCond
  /\ LET url == Head(urls_to_visit)[1]
         depth == Head(urls_to_visit)[2]
         response == Response(url)
     IN  /\ ~ShouldSkip(url, depth)
         /\ ~response.raises
         /\ response.status_code = 200
         /\ ~process_response_raises(Popped(url), response.body, url)

\* the first crawler over the webs of Init, with both start URLs and the
\* larger images: neither choice changes which iterations run
FairInit ==
  /\ Init
  /\ start_urls = <<UrlS, UrlE>>
  /\ img_len = 20481

\* crawl() is sequential code in a running process: requests.get and both
\* sleeps return, so a step that can be taken is taken. The last conjunct is
\* WF_vars(CrawlOk) with its ENABLED written out.
FairSpec ==
  /\ FairInit
  /\ [][Next]_vars
  /\ WF_vars(CrawlStep)
  /\ ([]<>~CrawlOkEnabled \/ []<><<CrawlOk>>_vars)

\* ================================================================= claims
\* crawl() has returned because the frontier ran empty, not because of max_pages
FrontierExhausted == pc = "done" /\ pages_crawled < max_pages

\* C1 (visited-once with retry): when a crawl() run ends with the frontier
\* drained, every URL that was fetched at all was fetched once, plus once more
\* for each soft-block response it gave.
C1_RetriedOncePerSoftBlock ==
  FrontierExhausted => \A u \in Urls : fetches[u] > 0 => fetches[u] = 1 + blocks[u]

\* C2 (soft block, then a normal page): when a run over an empty ledger ends
\* with the frontier drained, a URL whose first GET was soft-blocked, whose
\* later GETs answer the normal page, and whose bytes no other fetched URL
\* serves, has had exactly one artifact set extracted, on its second GET.
C2_OneArtifactSetAfterSoftBlock ==
  (FrontierExhausted /\ runs = 1) =>
    \A u \in Urls :
      (/\ web[u] = "block"
       /\ fetches[u] > 0
       /\ \A v \in Urls \ {u} : fetches[v] > 0 => NormalPage(v).content # NormalPage(u).content)
      => (processed[u] = 1 /\ fetches[u] = 2)

\* C3 (depth bound): no GET of a run was issued for an entry deeper than max_depth.
C3_DepthBound == \A e \in fetched : e[2] <= max_depth

\* an entry deeper than max_depth was popped, after some fetch, and skipped for
\* its depth alone
C3_Witness ==
  /\ last.op = "skip"
  /\ last.depth > max_depth
  /\ last.url \notin visited_urls
  /\ fetched # {}

\* C4 (page bound): pages_crawled never exceeds max_pages, for max_pages >= 0.
C4_PageBound == max_pages >= 0 => pages_crawled <= max_pages

\* the loop stopped on the page budget with entries left in the frontier
C4_Witness ==
  /\ pc = "done"
  /\ max_pages > 0
  /\ pages_crawled = max_pages
  /\ urls_to_visit # <<>>

\* C5 (dedup write gate): in a step of crawl(), every artifact written has a
\* governing hash (the page hash for text and tables, the image hash for
\* images) that was not in the ledger before the step and is in it after, no
\* image hash is written twice in the step, and the ledger, in memory and on
\* disk, loses no hash.
C5_DedupWriteGate ==
  [][pc = "crawl" =>
       /\ content_hashes \subseteq content_hashes'
       /\ load_hashes(hashed_content_file) \subseteq load_hashes(hashed_content_file')
       /\ \A i \in DOMAIN last'.written :
            LET w == last'.written[i] IN
            /\ w.hash \notin content_hashes
            /\ w.hash \in content_hashes'
            /\ w.kind = "image" =>
                 /\ w.hash = md5(documents'[w.file])
                 /\ \A j \in 1..(i - 1) : last'.written[j].hash # w.hash
            /\ w.kind # "image" => w.hash = md5(Response(last'.url).body.content)]_vars

\* one step wrote a table, a text and an image
C5_Witness ==
  /\ last.op = "ok"
  /\ \E i \in DOMAIN last.written : last.written[i].kind = "table"
  /\ \E i \in DOMAIN last.written : last.written[i].kind = "text"
  /\ \E i \in DOMAIN last.written : last.written[i].kind = "image"

\* C6 (dedup idempotence): a run constructed without reset after a completed
\* run, with the same arguments over the same servers, writes no artifact and
\* changes neither the url mapping nor the context data.
C6_DedupIdempotence ==
  [][(pc = "crawl" /\ runs >= 2 /\ ~reset_arg) =>
       /\ last'.written = <<>>
       /\ documents' = documents
       /\ url_mapping_file' = url_mapping_file
       /\ context_file' = context_file]_vars

\* the second run, without reset, got a 200 page that the first run had stored
C6_Witness ==
  /\ runs = 2
  /\ ~reset_arg
  /\ last.op = "ok"
  /\ ~last.blocked
  /\ md5(NormalPage(last.url).content) \in content_hashes
  /\ documents # EmptyMap

\* the text of a URL between "//" and the next "/" contains an allowed domain
HostAllowed(url) ==
  LET host == SubSeq(url, SchemeLen(url) + 1, NetlocEnd(url) - 1)
  IN  \E d \in allowed_domains : \E i \in 0..(Len(host) - Len(d)) : SubSeq(host, i + 1, i + Len(d)) = d

IsSeed(entry) == entry[2] = 0 /\ \E i \in DOMAIN start_urls : start_urls[i] = entry[1]

\* C7 (domain filter): every link parse_links has enqueued in this run has a
\* host containing an allowed domain, and so has every frontier entry that is
\* not a start-URL seed or the re-enqueue of one.
C7_DomainFilter ==
  /\ \A e \in enqueued : HostAllowed(e[1])
  /\ \A i \in DOMAIN urls_to_visit : IsSeed(urls_to_visit[i]) \/ HostAllowed(urls_to_visit[i][1])

\* a page with an anchor to another host and anchors to the same host was
\* parsed: the former was dropped, the latter enqueued
C7_Witness ==
  /\ last.op = "ok"
  /\ ~last.blocked
  /\ \E i \in DOMAIN NormalPage(last.url).links :
       ~HostAllowed(urljoin(last.url, NormalPage(last.url).links[i]))
  /\ last.enq # <<>>

DocsOfType(ext) == {f \in DOMAIN documents : EndsWith(f, <<".">> \o ext)}

\* the scenario's start: one start page (one table, one 15 KB image that no
\* filter rejects, text that survives the noise filter, links to the same and
\* to another host), max_depth = 0, an empty topic directory
C8_Scenario ==
  /\ start_urls = <<UrlS>>
  /\ web[UrlS] = "ok"
  /\ max_depth = 0
  /\ max_pages >= 1
  /\ img_len = 15360
  /\ runs = 1

\* C8 as stated: the scenario ends with one table, one image, one text
\* document, three provenance entries, and the frontier never grew.
C8_AsStated ==
  (C8_Scenario /\ pc = "done") =>
    /\ Cardinality(DocsOfType(CSV)) = 1
    /\ Cardinality(DocsOfType(Lower(PNG))) = 1
    /\ Cardinality(DocsOfType(TXT)) = 1
    /\ Cardinality(DOMAIN url_mapping_file.data) = 3
    /\ enqueued = {}

\* C8 amended: the scenario ends with one table, one text document, no image
\* (15 KB is under the size floor), two provenance entries; the links to the
\* allowed domain were enqueued at depth 1 and none was fetched.
C8_Amended ==
  (C8_Scenario /\ pc = "done") =>
    /\ Cardinality(DocsOfType(CSV)) = 1
    /\ Cardinality(DocsOfType(Lower(PNG))) = 0
    /\ Cardinality(DocsOfType(TXT)) = 1
    /\ DOMAIN documents = DocsOfType(CSV) \cup DocsOfType(TXT)
    /\ Cardinality(DOMAIN url_mapping_file.data) = 2
    /\ enqueued = {<<UrlP, 1>>, <<UrlA, 1>>, <<UrlB, 1>>}
    /\ fetched = {<<UrlS, 0>>}

C8_Witness == C8_Scenario /\ pc = "done" /\ documents # EmptyMap /\ fetches[UrlS] = 1

\* the block-indicator phrase in any letter case, in some line of a body
HasBlockPhrase(body) ==
  \E i \in DOMAIN body.lines : \E j \in 1..(Len(body.lines[i]) - 1) :
    /\ body.lines[i][j] \in {"surge", "Surge"}
    /\ body.lines[i][j + 1] \in {"protection", "Protection"}

\* C9 (soft-block action): an iteration whose 200 body has the block phrase
\* sleeps the retry delay first, appends the popped (url, depth) right behind
\* the entries the frontier held, and leaves the ledger (in memory and as
\* loaded from disk), the documents, the url mapping and the context data as
\* they were.
C9_SoftBlockAction ==
  [][(pc = "crawl" /\ last'.op = "ok" /\ HasBlockPhrase(Response(last'.url).body)) =>
       /\ last'.slept # <<>>
       /\ last'.slept[1] = retry_delay
       /\ Len(urls_to_visit') >= Len(urls_to_visit)
       /\ SubSeq(urls_to_visit', 1, Len(urls_to_visit) - 1) = Tail(urls_to_visit)
       /\ urls_to_visit'[Len(urls_to_visit)] = Head(urls_to_visit)
       /\ Head(urls_to_visit) = <<last'.url, last'.depth>>
       /\ content_hashes' = content_hashes
       /\ load_hashes(hashed_content_file') = load_hashes(hashed_content_file)
       /\ documents' = documents
       /\ url_mapping_file' = url_mapping_file
       /\ context_file' = context_file
       /\ last'.written = <<>>]_vars

\* a soft block written "Surge Protection" was handled while the stores held data
C9_Witness ==
  /\ last.op = "ok"
  /\ last.blocked
  /\ last.url = UrlS
  /\ blocks[UrlS] = 1
  /\ last.slept = <<retry_delay, delay>>

\* C10 (inter-request delay): every iteration that attempted a GET, whether it
\* answered 200, another status, or raised, ended with a sleep of the request delay.
C10_DelayAfterEveryFetch ==
  last.op \in {"ok", "status", "exception"} =>
    (last.slept # <<>> /\ last.slept[Len(last.slept)] = delay)

\* C11 (ledger persistence): every iteration of the crawl loop, whether it
\* skipped its entry, got 200, got another status or ended in an exception,
\* ran save_hashes at its end, so the ledger file exists and holds the ledger.
C11_SavedEveryIteration ==
  last.op \in {"skip", "ok", "status", "exception"} =>
    (last.saved /\ hashed_content_file = save_hashes(content_hashes))

\* C12 (failures are not retried): an iteration whose GET answers a status
\* other than 200 or raises leaves crawl() in its loop with the entry popped,
\* the URL in visited_urls, and pages_crawled, the rest of the frontier, the
\* ledger (in memory and as loaded from disk), the documents, the url mapping
\* and the context data as they were; and no such URL is fetched twice in a run.
C12_FailuresNotRetried ==
  [][(/\ pc = "crawl"
      /\ urls_to_visit # <<>>
      /\ pages_crawled < max_pages
      /\ Head(urls_to_visit)[1] \notin visited_urls
      /\ Head(urls_to_visit)[2] <= max_depth
      /\ web[Head(urls_to_visit)[1]] \in {"status", "exception"}) =>
       /\ pc' = "crawl"
       /\ Head(urls_to_visit)[1] \in visited_urls'
       /\ urls_to_visit' = Tail(urls_to_visit)
       /\ pages_crawled' = pages_crawled
       /\ content_hashes' = content_hashes
       /\ load_hashes(hashed_content_file') = load_hashes(hashed_content_file)
       /\ documents' = documents
       /\ url_mapping_file' = url_mapping_file
       /\ context_file' = context_file
       /\ \A u \in Urls : web[u] \in {"status", "exception"} => fetches'[u] <= 1]_vars

\* a GET failed while entries were left and the stores held data, and a later
\* entry for the same URL was then skipped
C12_Witness ==
  /\ last.op = "skip"
  /\ web[last.url] \in {"status", "exception"}
  /\ fetches[last.url] = 1
  /\ documents # EmptyMap

\* C13 (no fatal extraction errors): crawl() stops only with the frontier
\* empty or with max_pages reached, whatever an extractor raised on the way.
C13_StopsOnlyOnExhaustionOrBudget ==
  pc # "crawl" => (urls_to_visit = <<>> \/ pages_crawled >= max_pages)

\* C14 (reset): a crawler constructed with reset = True starts, before it
\* pops its first frontier entry, with no url mapping, an empty ledger on disk
\* and in memory, and a documents directory that exists and holds no file.
C14_ResetEmptiesStores ==
  last.op = "reset" =>
    /\ ~url_mapping_file.exists
    /\ url_mapping_file.data = EmptyMap
    /\ load_hashes(hashed_content_file) = {}
    /\ content_hashes = {}
    /\ data_dir
    /\ documents = EmptyMap
    /\ urls_to_visit = [i \in DOMAIN start_urls |-> <<start_urls[i], 0>>]

\* a reset over a directory that an earlier run had filled
C14_Witness ==
  /\ last.op = "reset"
  /\ reset_arg
  /\ runs = 2
  /\ context_file.exists
  /\ DOMAIN context_file.data # {}

\* C15 (artifacts are written once): the artifacts written by one iteration
\* go to pairwise distinct filenames, so none overwrites another.
C15_DistinctFilenames ==
  \A i, j \in DOMAIN last.written :
    i # j => last.written[i].file # last.written[j].file

\* the texts of pages[i..] occur in doc, one after the other, each followed
\* by a newline
RECURSIVE PagesInOrder(_, _, _)
PagesInOrder(doc, pages, i) ==
  IF i > Len(pages) THEN TRUE
  ELSE LET t == pages[i].text \o <<"\n">>
       IN  \E k \in 0..(Len(doc) - Len(t)) :
             /\ SubSeq(doc, k + 1, k + Len(t)) = t
             /\ PagesInOrder(SubSeq(doc, k + Len(t) + 1, Len(doc)), pages, i + 1)

\* C16 (PDF text): the text document written for a PDF holds the extracted
\* text of every page of the PDF, in page order, separated by newlines.
C16_PdfTextHasEveryPage ==
  \A k \in DOMAIN last.written :
    (last.op = "ok" /\ last.url = UrlP /\ last.written[k].kind = "text") =>
      PagesInOrder(documents[last.written[k].file], Response(UrlP).body.pages, 1)

\* C17 (termination): a running crawl() ends, also when a URL answers every
\* GET with a soft block; and after it has returned, the frontier is empty or
\* pages_crawled has reached max_pages.
C17_Termination ==
  /\ (pc = "crawl") ~> (pc # "crawl")
  /\ [](pc = "done" => (urls_to_visit = <<>> \/ pages_crawled >= max_pages))

\* a crawl that has returned after a URL walled it with soft blocks: the URL
\* was queued again and that entry was dropped
C17_Witness ==
  /\ pc = "done"
  /\ web[UrlA] = "wall"
  /\ blocks[UrlA] = 1
  /\ fetches[UrlA] = 1
  /\ urls_to_visit = <<>>
  /\ pages_crawled < max_pages

\* the GETs of this run, over the URLs of S, that were answered with status 200
RECURSIVE Fetches200(_)
Fetches200(S) ==
  IF S = {} THEN 0
  ELSE LET u == CHOOSE x \in S : TRUE
           r == Response(u)
       IN  (IF ~r.raises /\ r.status_code = 200 THEN fetches[u] ELSE 0) + Fetches200(S \ {u})

\* C18 (soft blocks count as crawled pages): pages_crawled equals the number
\* of GETs of this run that were answered 200, soft blocks included; and the
\* links of a soft-block body that pass the domain and visited tests are
\* enqueued at depth + 1.
C18_PagesCrawledCounts200 ==
  /\ pages_crawled = Fetches200(Urls)
  /\ (last.op = "ok" /\ last.blocked) =>
       \A i \in DOMAIN BlockPage(last.url).links :
         LET link == BlockPage(last.url).links[i]
             href == IF IsAbsolute(link) THEN link ELSE urljoin(last.url, link)
         IN  (HostAllowed(href) /\ href \notin visited_urls) =>
               /\ \E k \in DOMAIN last.enq : last.enq[k] = <<href, last.depth + 1>>
               /\ \E k \in DOMAIN urls_to_visit : urls_to_visit[k] = <<href, last.depth + 1>>

\* C19 (store consistency): every filename with a record in the context file
\* has an entry in the url mapping, and both name the same source URL.
C19_ContextHasProvenance ==
  \A f \in DOMAIN context_file.data :
    /\ url_mapping_file.exists
    /\ f \in DOMAIN url_mapping_file.data
    /\ url_mapping_file.data[f] = context_file.data[f].url

====
